---- MODULE Spec2Model ----
(***************************************************************************)
(* mini-search: crawl documentation sites at startup, index every accepted *)
(* page with a sentence embedding of its title, then serve hybrid search   *)
(* (lexical top-K, reranked by cosine similarity).                         *)
(*                                                                         *)
(* Sources: src/src/crawler.rs (crawl), src/src/main.rs (run_crawl, main,  *)
(* search, stats_page), src/src/transformers.rs (SentEmbed),               *)
(* src/src/index.rs (SearchIndex).                                         *)
(***************************************************************************)
EXTENDS Integers, Sequences, FiniteSets, TLC

(***************************************************************************)
(* Sizes.  The program's own numbers are scaled down so that the cases     *)
(* they decide can be enumerated; each keeps its role.                     *)
(***************************************************************************)
\* crawler.rs:31 `if total == 10_000` -- the page cap of one crawl() call.
MAX_PAGES == 2
\* Largest number of pages Website::get_pages() yields for one site.  It is
\* larger than MAX_PAGES so that the cap of crawler.rs:31 decides something.
MaxFetch == 3
\* Pages handed out by the fetch collaborator over a startup that is followed
\* to the end of the crawl.
MaxFetchTotal == 4
\* transformers.rs:109 Shape::from_dims(&[384]) -- the embedding dimension.
DIM == 2
\* main.rs:115 TopDocs::with_limit(20) -- lexical candidates per request.
TOP_K == 3
\* main.rs:172 scores.iter().take(10) -- results per request.
TOP_N == 2
\* Number of docs.rs crates crawled by the loop of main.rs:298-327 (14 there).
NumCrates == 2
\* Concurrent search requests (axum handler invocations) being served.
NumReq == 2
\* Pages handed out by the fetch collaborator in such a run.
BootFetchTotal == 2
\* Requests sent to the server over a run that starts with the server up.
MaxRequests == 2
\* crawler.rs:54 `embedding.len() * 4`, main.rs:139 `embedding.len() / 4`.
F32_SIZE == 4

\* Page::get_url_parsed() returned None (a record, like every URL of the model)
NoUrl == [str |-> "", prefix |-> "", last |-> ""]
NoTitle == "none"      \* the document has no <title> element
None == "None"         \* Option::None

(***************************************************************************)
(* f32 values.  A value is its IEEE-754 bit pattern, written as four bytes *)
(* from the most significant (sign, exponent) to the least.                *)
(***************************************************************************)
F_ZERO == <<0, 0, 0, 0>>
F_ONE == <<63, 128, 0, 0>>
F_NEG_ONE == <<191, 128, 0, 0>>
F_NAN == <<127, 192, 0, 0>>
F_NEG_NAN == <<255, 192, 0, 0>>

IsNaN(x) == x \in {F_NAN, F_NEG_NAN}

\* The numeric value of a non-NaN element.
Num(x) == CASE x = F_ONE -> 1 [] x = F_NEG_ONE -> -1 [] OTHER -> 0

Reverse(s) == [i \in 1..Len(s) |-> s[Len(s) + 1 - i]]

\* The bytes of one f32 in memory, as the host lays them out.
NativeBytes(x, end) == IF end = "little" THEN Reverse(x) ELSE x

RECURSIVE Flatten(_)
Flatten(ss) == IF ss = <<>> THEN <<>> ELSE Head(ss) \o Flatten(Tail(ss))

\* crawler.rs:51-57: the Vec<f32> is reinterpreted as len*4 bytes and copied.
EncodeEmbedding(e, end) == Flatten([i \in 1..Len(e) |-> NativeBytes(e[i], end)])

\* main.rs:136-142: the stored bytes are reinterpreted as len/4 f32 and copied.
\* The reinterpretation reads the buffer of the Vec<u8> the document store
\* returns for the field; that buffer is a heap allocation of its own, which
\* the allocator aligns to at least the 4 bytes an f32 needs.
DecodeBigEndian(b, end) ==
    [i \in 1..(Len(b) \div F32_SIZE) |->
        SubSeq(b, F32_SIZE * (i - 1) + 1, F32_SIZE * i)]
DecodeEmbedding(b, end) ==
    [i \in 1..(Len(b) \div F32_SIZE) |->
        NativeBytes(SubSeq(b, F32_SIZE * (i - 1) + 1, F32_SIZE * i), end)]

(***************************************************************************)
(* Crawl targets (main.rs:254-335) and the pages a site can return.        *)
(***************************************************************************)
Crates == [i \in 1..NumCrates |-> IF i = 1 THEN "log" ELSE IF i = 2 THEN "tokio" ELSE "serde"]

Targets == <<"python", "ruby", "rust_std">> \o Crates
NumTargets == Len(Targets)

\* A parsed URL: its string, the leading part of its path that the include
\* predicates test with starts_with, and its last segment ("" when the path
\* ends with "/").
Url(str, prefix, last) == [str |-> str, prefix |-> prefix, last |-> last]

SiteUrls(t) ==
    CASE t = "python" ->
            { Url("https://docs.python.org/3.13/library.html", "/3.13", "library.html"),
              Url("https://docs.python.org/3.11/library.html", "/3.11", "library.html") }
      [] t = "ruby" ->
            { Url("https://docs.ruby-lang.org/en/3.3/String.html", "/en/3.3", "String.html"),
              Url("https://docs.ruby-lang.org/en/3.3/", "/en/3.3", "") }
      [] t = "rust_std" ->
            { Url("https://doc.rust-lang.org/stable/std/vec/struct.Vec.html", "/stable", "struct.Vec.html"),
              Url("https://doc.rust-lang.org/stable/std/all.html", "/stable", "all.html") }
      [] OTHER ->
            { Url("https://docs.rs/" \o t \o "/fn.html", "/" \o t, "fn.html"),
              Url("https://docs.rs/" \o t \o "/index.html", "/" \o t, "index.html") }

\* The include closures of run_crawl.
is_good_url(t, url) ==
    CASE t = "python" ->                                     \* main.rs:258-264
            url.prefix \in {"/3.13", "/3.12", "/3.8", "/2.7"}
      [] t = "ruby" ->                                       \* main.rs:272-278
            /\ url.prefix \in {"/en/3.3", "/en/3.4", "/en/master"}
            /\ ~(url.last = "index.html" \/ url.last = "")
      [] t = "rust_std" ->                                   \* main.rs:286-291
            /\ url.prefix = "/stable"
            /\ url.last # "index.html"
            /\ url.last # "all.html"
      [] OTHER ->                                            \* main.rs:317-322
            /\ url.prefix = "/" \o t
            /\ url.last # "index.html"
            /\ url.last # "all.html"

\* What Html::parse_document finds in a page: the <title> text (or none) and
\* the joined text of its p/h1..h4 elements.
Htmls ==
    { [title |-> "Intro", body |-> "cats are great pets"],
      [title |-> "Intro", body |-> "dogs are loyal companions"],
      [title |-> NoTitle, body |-> ""] }

Pages(t) == [url : SiteUrls(t) \cup {NoUrl}, html : Htmls]

\* Query strings: empty, two terms, and one the query parser rejects.
Queries == {"", "cats docs", "("}

(***************************************************************************)
(* The embedding service (transformers.rs).  The encoder is an external    *)
(* model whose weights are read once at startup (transformers.rs:17-46);   *)
(* run_inference ends with normalize_l2 (transformers.rs:98, 137-139), so  *)
(* an embedding is a unit vector, or all NaN when the pooled vector is 0.  *)
(***************************************************************************)
Axis(k, x) == [i \in 1..DIM |-> IF i = k THEN x ELSE F_ZERO]
NaNVec == [i \in 1..DIM |-> F_NAN]

ModelFiles == {"m1", "m2"}

\* generate_embedding (transformers.rs:66-68) on success: a function of the
\* weights and the sentence alone.
Encoder(m, text) ==
    IF m = "m1"
    THEN CASE text = "Intro" -> Axis(1, F_ONE)
           [] text = "cats docs" -> Axis(1, F_ONE)
           [] text = "" -> Axis(DIM, F_ONE)
           [] OTHER -> Axis(1, F_NEG_ONE)
    ELSE CASE text = "Intro" -> Axis(DIM, F_ONE)
           [] text = "cats docs" -> Axis(1, F_ONE)
           [] OTHER -> NaNVec

(***************************************************************************)
(* Cosine similarity and the rerank (transformers.rs:104-134).             *)
(*                                                                         *)
(* A similarity is an f32.  The vectors of the model have elements in      *)
(* {-1, 0, 1, NaN}, so a similarity that is a number is n / sqrt(d) for    *)
(* small integers n and d > 0; it is kept as that pair and compared        *)
(* exactly (for these values equal reals are equal f32 and different reals *)
(* different f32).  Tensor::sum_all accumulates from +0.0, so a zero sum    *)
(* is +0.0 and no similarity of the model is -0.0.                         *)
(***************************************************************************)
HasNaN(v) == \E i \in 1..Len(v) : IsNaN(v[i])

RECURSIVE SumTo(_, _)
SumTo(f, n) == IF n = 0 THEN 0 ELSE f[n] + SumTo(f, n - 1)

\* (&a * &b)?.sum_all() for vectors without NaN (transformers.rs:120-122).
Dot(a, b) == SumTo([i \in 1..Len(a) |-> Num(a[i]) * Num(b[i])], Len(a))

NaNSim(neg) == [nan |-> TRUE, neg |-> neg, n |-> 0, d |-> 0]
NumSim(n, d) == [nan |-> FALSE, neg |-> FALSE, n |-> n, d |-> d]

\* transformers.rs:120-124: sum_qc / (sum_qq * sum_cc).sqrt().  A NaN element
\* makes the sums NaN; a zero-norm vector makes the quotient 0/0.  The sign
\* bit of a NaN the arithmetic produces is not fixed by the language (x86-64
\* produces the negative quiet NaN for 0/0, AArch64 the positive one): `neg`
\* is the sign this computation produced.
CosSim(q, c, neg) ==
    IF HasNaN(q) \/ HasNaN(c) \/ Dot(q, q) * Dot(c, c) = 0
    THEN NaNSim(neg)
    ELSE NumSim(Dot(q, c), Dot(q, q) * Dot(c, c))

Sgn(x) == IF x > 0 THEN 1 ELSE IF x < 0 THEN -1 ELSE 0

\* a < b and a == b as f32 `<` and `==` decide them (false when either is NaN).
F32Lt(a, b) ==
    /\ ~a.nan /\ ~b.nan
    /\ Sgn(a.n) * a.n * a.n * b.d < Sgn(b.n) * b.n * b.n * a.d
F32Eq(a, b) ==
    /\ ~a.nan /\ ~b.nan
    /\ Sgn(a.n) * a.n * a.n * b.d = Sgn(b.n) * b.n * b.n * a.d

\* f32::total_cmp: negative NaN < every number < positive NaN.
\* The result is "Less", "Equal" or "Greater".
TotalClass(a) == IF a.nan THEN (IF a.neg THEN 0 ELSE 2) ELSE 1
total_cmp(a, b) ==
    IF TotalClass(a) # TotalClass(b)
    THEN (IF TotalClass(a) < TotalClass(b) THEN "Less" ELSE "Greater")
    ELSE IF a.nan THEN "Equal"
    ELSE IF F32Lt(a, b) THEN "Less"
    ELSE IF F32Lt(b, a) THEN "Greater"
    ELSE "Equal"

\* transformers.rs:131: the comparator |a, b| b.1.total_cmp(&a.1).
CompareAscending(a, b) == total_cmp(a.sim, b.sim)
Compare(a, b) == total_cmp(b.sim, a.sim)

\* slice::sort_by is a stable sort: with a total order its result is the one
\* an insertion sort produces that puts each element behind every earlier
\* element not ordered after it.
RECURSIVE InsertSorted(_, _)
InsertSorted(sorted, x) ==
    IF sorted = <<>> THEN <<x>>
    ELSE IF Compare(Head(sorted), x) = "Greater"
         THEN <<x>> \o sorted
         ELSE <<Head(sorted)>> \o InsertSorted(Tail(sorted), x)

RECURSIVE sort_by(_)
sort_by(s) ==
    IF s = <<>> THEN <<>>
    ELSE InsertSorted(sort_by(SubSeq(s, 1, Len(s) - 1)), s[Len(s)])

\* transformers.rs:109, 116-117: Tensor::from_vec / from_slice with
\* Shape::from_dims(&[384]) fail unless the vector has exactly DIM elements.
ShapeOk(v) == Len(v) = DIM

\* SentEmbed::sort_by_similarity (transformers.rs:104-134): an error, or the
\* pairs (i, similarity) sorted; i counts the candidates from 0.  negs[k] is
\* the sign of the NaN the k-th similarity computation produces, if it does.
sort_by_similarity(query, candidates, negs) ==
    IF ~ShapeOk(query) \/ \E k \in 1..Len(candidates) : ~ShapeOk(candidates[k])
    THEN [ok |-> FALSE, scores |-> <<>>]
    ELSE [ok |-> TRUE,
          scores |-> sort_by([k \in 1..Len(candidates) |->
                        [i |-> k - 1, sim |-> CosSim(query, candidates[k], negs[k])]])]


(***************************************************************************)
(* State.                                                                  *)
(***************************************************************************)
VARIABLES
    endian,     \* byte order of the host the process runs on
    model,      \* the model files loaded by SentEmbed::new
    mainPc,     \* main(): "crawl", "serving", or "aborted" (main returned Err)
    tgt,        \* run_crawl: index in Targets of the crawl() call in progress
    cpc,        \* crawl(): position in the function
    pagesLeft,  \* pages of w.get_pages() the loop has not yet reached
    budget,     \* pages the fetch collaborator may still hand out
    total,      \* crawl(): `total`
    cur,        \* crawl(): locals of the loop body (url, title, body, embedding)
    writers,    \* number of IndexWriter objects alive
    pending,    \* documents added to the writer and not yet committed
    docs,       \* the committed documents of the index, in commit order
    by,         \* for each committed document, the target whose crawl wrote it
    counts,     \* run_crawl: python_ct, ruby_ct, rust_std_ct, docs_rs_ct
    stats,      \* AppState.stats, None until main builds the AppState
    visible,    \* number of committed documents the IndexReader's searchers show
    reqBudget,  \* requests the server will still be sent
    conc,       \* requests the server is sent at a time, at most
    lock,       \* owner of the Mutex<SentEmbed> (<<>> when free)
    req,        \* per handler invocation: its locals and position
    task,       \* per handler invocation: the embedding task it spawned
    call        \* a direct call of sort_by_similarity: arguments and result

crawlVars == <<tgt, cpc, pagesLeft, budget, total, cur, writers, pending, docs, by, counts>>
srvVars == <<visible, reqBudget, conc, lock, req, task>>
vars == <<endian, model, mainPc, crawlVars, stats, srvVars, call>>

\* No direct call of sort_by_similarity.
NoCall == [pc |-> "none", query |-> <<>>, candidates |-> <<>>,
           ok |-> FALSE, scores |-> <<>>]

Reqs == 1..NumReq

Free == <<>>
TaskOf(r) == <<"task", r>>
HandlerOf(r) == <<"handler", r>>

\* What a request got back: nothing yet (or never), the page rendered with an
\* empty context (main.rs:215), or with a SearchRes (main.rs:202-208).
NoResponse == [view |-> "none", context |-> "none", results |-> <<>>]
SearchBoxView == [view |-> "index.html", context |-> "default", results |-> <<>>]
ResultsView(results) == [view |-> "index.html", context |-> "SearchRes", results |-> results]
\* stats.html rendered from the CrawlStats of the AppState (main.rs:229-233).
StatsView(s) == [view |-> "stats.html", context |-> "CrawlStats", results |-> <<s>>]

\* A handler slot with no request in it.  `route` is the path of the request:
\* "/" (search, main.rs:350) or "/stats" (stats_page, main.rs:351).
IdleReq ==
    [pc |-> "idle", route |-> "/", query |-> None, did |-> {}, snapshot |-> 0,
     results_raw |-> <<>>, docs_with_embeddings |-> <<>>,
     scores |-> <<>>, response |-> NoResponse]
\* No task spawned.
NoTask == [pc |-> "none", result |-> None, embedding |-> <<>>]

NoCur == [url |-> NoUrl, title |-> NoTitle, body |-> "", embedding |-> <<>>]

ZeroCounts == [python_ct |-> 0, ruby_ct |-> 0, rust_std_ct |-> 0, docs_rs_ct |-> 0]

Init ==
    /\ endian \in {"little", "big"}
    /\ model \in ModelFiles
    /\ mainPc = "crawl"
    /\ tgt = 1
    /\ cpc = "call"
    /\ pagesLeft = 0
    /\ budget = BootFetchTotal
    /\ total = 0
    /\ cur = NoCur
    /\ writers = 0
    /\ pending = <<>>
    /\ docs = <<>>
    /\ by = <<>>
    /\ counts = ZeroCounts
    /\ stats = None
    /\ visible = 0
    /\ reqBudget = 1          \* a run that starts with the crawl is followed
    /\ conc = 1               \* through one request
    /\ lock = Free
    /\ req = [r \in Reqs |-> IdleReq]
    /\ task = [r \in Reqs |-> NoTask]
    /\ call = NoCall

(***************************************************************************)
(* crawl() -- crawler.rs:12-74.                                            *)
(***************************************************************************)
Min(a, b) == IF a < b THEN a ELSE b

\* An error of crawl() that main ignores: the server is started all the same.
CrawlFailsIgnored ==
    /\ mainPc' = "serving"
    /\ cpc' = "err"
    /\ cur' = NoCur
    /\ pending' = <<>>
    /\ writers' = 0
    /\ UNCHANGED <<endian, model, tgt, pagesLeft, budget, total, docs, by, counts, stats, srvVars, call>>

\* An error returned with `?` from crawl() goes through run_crawl (main.rs:268,
\* 282, 295, 326) and main (main.rs:347): the process ends, the writer and its
\* uncommitted documents are dropped.
CrawlFails ==
    /\ mainPc' = "aborted"
    /\ cpc' = "err"
    /\ cur' = NoCur
    /\ pending' = <<>>
    /\ writers' = 0
    /\ UNCHANGED <<endian, model, tgt, pagesLeft, budget, total, docs, by, counts, stats, srvVars, call>>

\* crawler.rs:18-28: scrape the site, open the writer, total = 0.
CrawlCall ==
    /\ mainPc = "crawl"
    /\ cpc = "call"
    /\ \E n \in 0..Min(MaxFetch, budget), ok \in BOOLEAN :
        IF ok
        THEN /\ pagesLeft' = n
             /\ budget' = budget - n
             /\ writers' = writers + 1
             /\ total' = 0
             /\ cpc' = "loop"
             /\ UNCHANGED <<endian, model, mainPc, tgt, cur, pending, docs, by, counts, stats, srvVars, call>>
        ELSE CrawlFails                                      \* index.writer()?

\* crawler.rs:31 -- the page cap.
NeverAtCap(n) == FALSE
AtCap(n) == n = MAX_PAGES

\* crawler.rs:34-35 -- the URL parses and the include predicate accepts it.
AcceptsParsed(t, page) == page.url # NoUrl
Accepts(t, page) == page.url # NoUrl /\ is_good_url(t, page.url)

\* crawler.rs:30-35, 69-71: one turn of the `for page in ...` loop up to the
\* decision on the page: the iterator is exhausted or the cap is reached (leave
\* the loop), the page is skipped (next turn), or its body is entered.
CrawlNextPage ==
    /\ mainPc = "crawl"
    /\ cpc = "loop"
    /\ IF pagesLeft = 0 \/ AtCap(total)
       THEN /\ cpc' = "return"
            /\ UNCHANGED <<pagesLeft, cur>>
       ELSE \E page \in Pages(Targets[tgt]) :
            /\ pagesLeft' = pagesLeft - 1
            /\ IF Accepts(Targets[tgt], page)
               THEN /\ cpc' = "extract"
                    /\ cur' = [NoCur EXCEPT !.url = page.url,
                                            !.title = page.html.title,
                                            !.body = page.html.body]
               ELSE UNCHANGED <<cpc, cur>>
    /\ UNCHANGED <<endian, model, mainPc, tgt, budget, total, writers, pending, docs, by, counts, stats, srvVars, call>>

\* crawler.rs:44-48: the <title> text, or the URL string when there is none.
TitleOf(url, htmlTitle) == IF htmlTitle = NoTitle THEN url.str ELSE htmlTitle

\* crawler.rs:36-48: parse the HTML, collect body and title.
CrawlExtract ==
    /\ mainPc = "crawl"
    /\ cpc = "extract"
    /\ cur' = [cur EXCEPT !.title = TitleOf(cur.url, cur.title)]
    /\ cpc' = "embed"
    /\ UNCHANGED <<endian, model, mainPc, tgt, pagesLeft, budget, total, writers, pending, docs, by, counts, stats, srvVars, call>>

\* crawler.rs:50-57 with the body text embedded together with the title.
CrawlEmbedWithBody ==
    /\ mainPc = "crawl"
    /\ cpc = "embed"
    /\ \E ok \in BOOLEAN :
        IF ok
        THEN /\ cur' = [cur EXCEPT
                    !.embedding = EncodeEmbedding(
                        Encoder(model, cur.title \o " " \o cur.body), endian)]
             /\ cpc' = "add"
             /\ UNCHANGED <<endian, model, mainPc, tgt, pagesLeft, budget, total, writers, pending, docs, by, counts, stats, srvVars, call>>
        ELSE CrawlFails

\* crawler.rs:50-57: embed the title, reinterpret the vector as bytes.
CrawlEmbed ==
    /\ mainPc = "crawl"
    /\ cpc = "embed"
    /\ \E ok \in BOOLEAN :
        IF ok
        THEN /\ cur' = [cur EXCEPT
                    !.embedding = EncodeEmbedding(Encoder(model, cur.title), endian)]
             /\ cpc' = "add"
             /\ UNCHANGED <<endian, model, mainPc, tgt, pagesLeft, budget, total, writers, pending, docs, by, counts, stats, srvVars, call>>
        ELSE CrawlFails                                      \* generate_embedding(..)?

\* crawler.rs:59-66: build the document and add it to the writer.
CrawlAdd ==
    /\ mainPc = "crawl"
    /\ cpc = "add"
    /\ \E ok \in BOOLEAN :
        IF ok
        THEN /\ pending' = Append(pending,
                    [url |-> cur.url.str, title |-> cur.title,
                     body |-> cur.body, embedding |-> cur.embedding])
             /\ cpc' = "commit"
             /\ UNCHANGED <<endian, model, mainPc, tgt, pagesLeft, budget, total, cur, writers, docs, by, counts, stats, srvVars, call>>
        ELSE CrawlFails                                      \* writer.add_document(doc)?

\* crawler.rs:67-68 with the commit left out of the loop.
CrawlCommitDeferred ==
    /\ mainPc = "crawl"
    /\ cpc = "commit"
    /\ total' = total + 1
    /\ cur' = NoCur
    /\ cpc' = "loop"
    /\ UNCHANGED <<endian, model, mainPc, tgt, pagesLeft, budget, writers, pending,
                   docs, by, counts, stats, srvVars, call>>

\* crawler.rs:66-68 with the document replacing the stored documents of the
\* same URL, if there are any.
CrawlCommitUpsert ==
    /\ mainPc = "crawl"
    /\ cpc = "commit"
    /\ LET same == {k \in 1..Len(docs) : docs[k].url = pending[1].url}
       IN  IF same = {}
           THEN /\ docs' = docs \o pending
                /\ by' = by \o [i \in 1..Len(pending) |-> Targets[tgt]]
           ELSE /\ docs' = [k \in 1..Len(docs) |->
                                IF k \in same THEN pending[1] ELSE docs[k]]
                /\ by' = [k \in 1..Len(by) |->
                                IF k \in same THEN Targets[tgt] ELSE by[k]]
    /\ pending' = <<>>
    /\ total' = total + 1
    /\ cur' = NoCur
    /\ cpc' = "loop"
    /\ UNCHANGED <<endian, model, mainPc, tgt, pagesLeft, budget, writers, counts, stats, srvVars, call>>

\* crawler.rs:67-68: commit, then count the document.
CrawlCommit ==
    /\ mainPc = "crawl"
    /\ cpc = "commit"
    /\ \E ok \in BOOLEAN :
        IF ok
        THEN /\ docs' = docs \o pending
             /\ by' = by \o [i \in 1..Len(pending) |-> Targets[tgt]]
             /\ pending' = <<>>
             /\ total' = total + 1
             /\ cur' = NoCur
             /\ cpc' = "loop"
             /\ UNCHANGED <<endian, model, mainPc, tgt, pagesLeft, budget, writers, counts, stats, srvVars, call>>
        ELSE CrawlFails                                      \* writer.commit()?

\* The field of CrawlStats a target's count goes to (main.rs:256, 270, 284, 315).
CountField(t) ==
    CASE t = "python" -> "python_ct"
      [] t = "ruby" -> "ruby_ct"
      [] t = "rust_std" -> "rust_std_ct"
      [] OTHER -> "docs_rs_ct"

\* crawler.rs:73 Ok(total), and the caller's use of it in run_crawl
\* (main.rs:256-327); after the last target main builds the AppState with the
\* stats (main.rs:329-359) and serves (main.rs:361-371).
\* main.rs:256, 270, 284: `let x_ct = crawl(..)`; main.rs:297, 315:
\* `docs_rs_ct = 0` and `docs_rs_ct += crawl(..)` (the variant assigns).
TallyLast(old, n) == n
Tally(old, n) == old + n

\* crawler.rs:26, 74: `writer` is a local of crawl(), dropped when the call
\* returns (the variant keeps it alive).
WriterKept(n) == n
WriterDropped(n) == n - 1

\* main.rs:256-334: the crawl() call that returned was the last of run_crawl
\* (the variant takes the first for it).
NotLastTarget(t) == t = 1
LastTarget(t) == t = NumTargets

CrawlReturn ==
    /\ mainPc = "crawl"
    /\ cpc = "return"
    /\ counts' = [counts EXCEPT ![CountField(Targets[tgt])] = Tally(@, total)]
    /\ writers' = WriterDropped(writers)
    /\ pending' = <<>>
    /\ pagesLeft' = 0
    /\ IF LastTarget(tgt)
       THEN /\ mainPc' = "serving"
            /\ stats' = counts'
            /\ cpc' = "done"
            /\ budget' = 0
            /\ total' = 0
            /\ UNCHANGED tgt
       ELSE /\ tgt' = tgt + 1
            /\ cpc' = "call"
            /\ UNCHANGED <<mainPc, stats, budget, total>>
    /\ UNCHANGED <<endian, model, cur, docs, by, srvVars, call>>

(***************************************************************************)
(* The lexical index as the handler uses it (index.rs, main.rs:107-117).   *)
(***************************************************************************)
\* The terms the tokenizer finds in a stored text.
TermsOf(text) ==
    CASE text = "cats are great pets" -> {"cats", "are", "great", "pets"}
      [] text = "dogs are loyal companions" -> {"dogs", "are", "loyal", "companions"}
      [] text = "Intro" -> {"intro"}
      [] text = "" -> {}
      [] OTHER -> {"https", "docs"}                  \* a URL used as the title

\* QueryParser::parse_query: the terms of the query (any of them may match),
\* no term for the empty query, an error for a syntax error.
parse_query(q) ==
    CASE q = "(" -> [ok |-> FALSE, terms |-> {}]
      [] q = "cats docs" -> [ok |-> TRUE, terms |-> {"cats", "docs"}]
      [] OTHER -> [ok |-> TRUE, terms |-> {}]

\* The parser searches the title and body fields (index.rs:50).
Matches(terms, doc) == terms \cap (TermsOf(doc.title) \cup TermsOf(doc.body)) # {}

\* Sequences over a set, of at most a given length.
RECURSIVE SeqsUpTo(_, _)
SeqsUpTo(S, n) ==
    IF n = 0 THEN {<<>>}
    ELSE SeqsUpTo(S, n - 1) \cup
         {Append(q, x) : q \in {p \in SeqsUpTo(S, n - 1) : Len(p) = n - 1}, x \in S}

\* Sequences without repetition over a set, of a given length.
RECURSIVE Arrangements(_, _)
Arrangements(S, n) ==
    IF n = 0 THEN {<<>>}
    ELSE UNION {{<<x>> \o rest : rest \in Arrangements(S \ {x}, n - 1)} : x \in S}

\* searcher.search(&query, &TopDocs::with_limit(20)) (main.rs:114-116): the
\* addresses of at most TOP_K matching documents of the snapshot, best score
\* first.  The scores are the index engine's; any ranking is possible.
TopDocs(terms, snapshot) ==
    LET hits == {a \in 1..snapshot : Matches(terms, docs[a])}
    IN  Arrangements(hits, Min(TOP_K, Cardinality(hits)))

(***************************************************************************)
(* search() -- main.rs:71-217 -- and the task it spawns.                   *)
(***************************************************************************)
progVars == <<endian, model, mainPc, crawlVars, stats, call>>

\* The reader reloads some time after a commit (index.rs:52, the reader's
\* default reload policy); searchers show the documents as of the last reload.
ReaderReload ==
    /\ mainPc = "serving"
    /\ visible < Len(docs)
    /\ visible' = Len(docs)
    /\ UNCHANGED <<progVars, reqBudget, conc, lock, req, task>>

\* A request is given to the lowest free handler slot.
FreeSlot(r) ==
    /\ req[r].pc = "idle"
    /\ task[r].pc = "none"
    /\ \A r2 \in Reqs : r2 < r => req[r2].pc # "idle"
    /\ Cardinality({r2 \in Reqs : req[r2].pc # "idle"}) < conc

\* main.rs:77, 209-216: no `q` parameter -- render the page with an empty
\* context.
SearchBoxNever(q) == FALSE
SearchBox(q) == q = None

SearchNoQuery(r) ==
    /\ mainPc = "serving"
    /\ reqBudget > 0
    /\ FreeSlot(r)
    /\ \E q \in Queries \cup {None} :
        /\ SearchBox(q)
        /\ req' = [req EXCEPT ![r] = [IdleReq EXCEPT
                        !.pc = "done", !.query = q,
                        !.response = SearchBoxView]]
    /\ reqBudget' = reqBudget - 1
    /\ UNCHANGED <<progVars, visible, conc, lock, task>>

\* stats_page (main.rs:219-234): render stats.html from the stats of the
\* AppState; a render error is a panic (.unwrap()).
StatsPage(r) ==
    /\ mainPc = "serving"
    /\ reqBudget > 0
    /\ FreeSlot(r)
    /\ \E ok \in BOOLEAN :
        req' = [req EXCEPT ![r] =
            IF ok
            THEN [IdleReq EXCEPT !.pc = "done", !.route = "/stats",
                                 !.response = StatsView(stats)]
            ELSE [IdleReq EXCEPT !.pc = "panicked", !.route = "/stats"]]
    /\ reqBudget' = reqBudget - 1
    /\ UNCHANGED <<progVars, visible, conc, lock, task>>

\* main.rs:77-105: `q` is present -- spawn the embedding task.
SearchSpawn(r) ==
    /\ mainPc = "serving"
    /\ reqBudget > 0
    /\ FreeSlot(r)
    /\ \E q \in Queries \cup {None} :
        /\ ~SearchBox(q)
        /\ req' = [req EXCEPT ![r] = [IdleReq EXCEPT
                        !.pc = "parse", !.query = q, !.did = {"spawn"}]]
    /\ task' = [task EXCEPT ![r] = [NoTask EXCEPT !.pc = "lock"]]
    /\ reqBudget' = reqBudget - 1
    /\ UNCHANGED <<progVars, visible, conc, lock>>

\* A panic in the handler: the request gets no response.  A MutexGuard the
\* handler holds is dropped by the unwinding.
Panicked(rq) == [rq EXCEPT !.pc = "panicked", !.results_raw = <<>>,
                           !.docs_with_embeddings = <<>>, !.scores = <<>>]

\* main.rs:107-111: take a searcher, parse the query.
SearchParse(r) ==
    /\ req[r].pc = "parse"
    /\ req' = [req EXCEPT ![r] =
            IF ~parse_query(req[r].query).ok
            THEN [Panicked(req[r]) EXCEPT !.did = @ \cup {"searcher", "parse_query"}]
            ELSE [req[r] EXCEPT !.pc = "search", !.snapshot = visible,
                                !.did = @ \cup {"searcher", "parse_query"}]]
    /\ UNCHANGED <<progVars, visible, conc, reqBudget, lock, task>>

\* main.rs:113-117: run the query for the top candidates.
SearchLexical(r) ==
    /\ req[r].pc = "search"
    /\ \E ok \in BOOLEAN :
        IF ok
        THEN \E raw \in TopDocs(parse_query(req[r].query).terms, req[r].snapshot) :
                req' = [req EXCEPT ![r] = [req[r] EXCEPT
                            !.pc = "fetch", !.results_raw = raw,
                            !.did = @ \cup {"search"}]]
        ELSE req' = [req EXCEPT ![r] =                \* .expect("search failed")
                        [Panicked(req[r]) EXCEPT !.did = @ \cup {"search"}]]
    /\ UNCHANGED <<progVars, visible, conc, reqBudget, lock, task>>

\* The value of the embedding field of a stored document that has none
\* (doc.get_first(..) is None, main.rs:129-131); not a byte string.
Missing == <<256>>

\* main.rs:119-147: fetch every candidate and decode its stored embedding.  A
\* candidate without the field is a panic (.unwrap(), main.rs:131).
SearchFetch(r) ==
    /\ req[r].pc = "fetch"
    /\ \E ok \in BOOLEAN :
        IF /\ ok
           /\ \A k \in 1..Len(req[r].results_raw) :
                docs[req[r].results_raw[k]].embedding # Missing
        THEN req' = [req EXCEPT ![r] = [req[r] EXCEPT
                        !.pc = "join",
                        !.did = @ \cup {"doc"},
                        !.docs_with_embeddings =
                            [k \in 1..Len(req[r].results_raw) |->
                                [embedding |-> DecodeEmbedding(
                                     docs[req[r].results_raw[k]].embedding, endian),
                                 doc |-> req[r].results_raw[k]]]]]
        ELSE req' = [req EXCEPT ![r] =                \* .expect("couldn't get doc")
                        [Panicked(req[r]) EXCEPT !.did = @ \cup {"doc"}]]
    /\ UNCHANGED <<progVars, visible, conc, reqBudget, lock, task>>

\* main.rs:103 with the embedding service used without waiting for the mutex.
TaskLockNoWait(r) ==
    /\ task[r].pc = "lock"
    /\ lock' = TaskOf(r)
    /\ task' = [task EXCEPT ![r].pc = "embed"]
    /\ UNCHANGED <<progVars, visible, conc, reqBudget, req>>

\* main.rs:103: the task takes the mutex (se.lock().await).
TaskLock(r) ==
    /\ task[r].pc = "lock"
    /\ lock = Free
    /\ lock' = TaskOf(r)
    /\ task' = [task EXCEPT ![r].pc = "embed"]
    /\ UNCHANGED <<progVars, visible, conc, reqBudget, req>>

\* main.rs:103 with a mutex that stays locked when its holder panics.
TaskEmbedKeepsLock(r) ==
    /\ task[r].pc = "embed"
    /\ \E outcome \in {"ok", "err", "panic"} :
        /\ task' = [task EXCEPT ![r] =
                [pc |-> "done",
                 result |-> CASE outcome = "ok" -> "Some"
                              [] outcome = "err" -> None
                              [] OTHER -> "panicked",
                 embedding |-> IF outcome = "ok"
                               THEN Encoder(model, req[r].query) ELSE <<>>]]
        /\ lock' = IF outcome = "panic" THEN lock ELSE Free
    /\ req' = [req EXCEPT ![r].did = @ \cup {"generate_embedding"}]
    /\ UNCHANGED <<progVars, visible, conc, reqBudget>>

\* main.rs:103: generate_embedding(query).ok() under the lock; the guard is
\* dropped at the end of the statement, also when the call panics
\* (transformers.rs:56 .expect).
TaskEmbed(r) ==
    /\ task[r].pc = "embed"
    /\ \E outcome \in {"ok", "err", "panic"} :
        task' = [task EXCEPT ![r] =
            [pc |-> "done",
             result |-> CASE outcome = "ok" -> "Some"
                          [] outcome = "err" -> None
                          [] OTHER -> "panicked",
             embedding |-> IF outcome = "ok"
                           THEN Encoder(model, req[r].query) ELSE <<>>]]
    /\ lock' = Free
    /\ req' = [req EXCEPT ![r].did = @ \cup {"generate_embedding"}]
    /\ UNCHANGED <<progVars, visible, conc, reqBudget>>

\* main.rs:150: jh.await -- the handler goes on when the task has finished.
JoinedAlways(t) == TRUE
Joined(t) == t.pc = "done"

SearchJoin(r) ==
    /\ req[r].pc = "join"
    /\ Joined(task[r])
    /\ req' = [req EXCEPT ![r] =
            IF task[r].result = "panicked"
            THEN Panicked(req[r])                     \* .expect("something broke")
            ELSE [req[r] EXCEPT !.pc = "lock", !.did = @ \cup {"join"}]]
    /\ UNCHANGED <<progVars, visible, conc, reqBudget, lock, task>>

\* main.rs:154-156: the handler takes the mutex.
SearchLock(r) ==
    /\ req[r].pc = "lock"
    /\ lock = Free
    /\ lock' = HandlerOf(r)
    /\ req' = [req EXCEPT ![r].pc = "sort"]
    /\ UNCHANGED <<progVars, visible, conc, reqBudget, task>>

\* main.rs:157-162 with a fallback to the lexical order when the task brought
\* no embedding.
SearchSortFallback(r) ==
    /\ req[r].pc = "sort"
    /\ lock' = Free
    /\ IF task[r].result = None
       THEN req' = [req EXCEPT ![r] = [req[r] EXCEPT
                        !.pc = "render",
                        !.scores = [k \in 1..Len(req[r].docs_with_embeddings) |->
                                        [i |-> k - 1, sim |-> NumSim(0, 1)]]]]
       ELSE \E negs \in [1..Len(req[r].docs_with_embeddings) -> BOOLEAN] :
            LET scores == sort_by_similarity(
                             task[r].embedding,
                             [k \in 1..Len(req[r].docs_with_embeddings) |->
                                 req[r].docs_with_embeddings[k].embedding],
                             negs)
            IN  req' = [req EXCEPT ![r] =
                    IF ~scores.ok
                    THEN [Panicked(req[r]) EXCEPT !.did = @ \cup {"sort_by_similarity"}]
                    ELSE [req[r] EXCEPT !.pc = "render", !.scores = scores.scores,
                                        !.did = @ \cup {"sort_by_similarity"}]]
    /\ UNCHANGED <<progVars, visible, conc, reqBudget, task>>

\* main.rs:157-162: embedding.unwrap(), sort_by_similarity(..).unwrap(); the
\* guard is dropped at the end of the statement or by the panic.
SearchSort(r) ==
    /\ req[r].pc = "sort"
    /\ lock' = Free
    /\ IF task[r].result = None
       THEN req' = [req EXCEPT ![r] = Panicked(req[r])]
       ELSE \E negs \in [1..Len(req[r].docs_with_embeddings) -> BOOLEAN] :
            LET scores == sort_by_similarity(
                             task[r].embedding,
                             [k \in 1..Len(req[r].docs_with_embeddings) |->
                                 req[r].docs_with_embeddings[k].embedding],
                             negs)
            IN  req' = [req EXCEPT ![r] =
                    IF ~scores.ok
                    THEN [Panicked(req[r]) EXCEPT !.did = @ \cup {"sort_by_similarity"}]
                    ELSE [req[r] EXCEPT !.pc = "render", !.scores = scores.scores,
                                        !.did = @ \cup {"sort_by_similarity"}]]
    /\ UNCHANGED <<progVars, visible, conc, reqBudget, task>>

\* main.rs:172: scores.iter().take(10).
TakeAll(scores) == scores
Take(scores) == SubSeq(scores, 1, Min(TOP_N, Len(scores)))

\* main.rs:172-198: url and title of docs_with_embeddings[i] for each of the
\* first scores; `cand` is the i of the score the result was built from.
ResultsOf(rq) ==
    LET top == Take(rq.scores)
    IN  [k \in 1..Len(top) |->
            [cand |-> top[k].i,
             url |-> docs[rq.docs_with_embeddings[top[k].i + 1].doc].url,
             title |-> docs[rq.docs_with_embeddings[top[k].i + 1].doc].title]]

\* main.rs:164-208: snippets, results, the rendered page.
SearchRender(r) ==
    /\ req[r].pc = "render"
    /\ req' = [req EXCEPT ![r] = [req[r] EXCEPT
                    !.pc = "done",
                    !.response = ResultsView(ResultsOf(req[r]))]]
    /\ UNCHANGED <<progVars, visible, conc, reqBudget, lock, task>>

\* The response has been sent (or the connection dropped) and the task has
\* ended: the slot serves the next request.
Complete(r) ==
    /\ req[r].pc \in {"done", "panicked"}
    /\ task[r].pc \in {"none", "done"}
    /\ req' = [req EXCEPT ![r] = IdleReq]
    /\ task' = [task EXCEPT ![r] = NoTask]
    /\ UNCHANGED <<progVars, visible, conc, reqBudget, lock>>

Serve(r) ==
    \/ StatsPage(r)
    \/ SearchNoQuery(r)
    \/ SearchSpawn(r)
    \/ SearchParse(r)
    \/ SearchLexical(r)
    \/ SearchFetch(r)
    \/ TaskLock(r)
    \/ TaskEmbed(r)
    \/ SearchJoin(r)
    \/ SearchLock(r)
    \/ SearchSort(r)
    \/ SearchRender(r)
    \/ Complete(r)

Next ==
    \/ CrawlCall
    \/ CrawlNextPage
    \/ CrawlExtract
    \/ CrawlEmbed
    \/ CrawlAdd
    \/ CrawlCommit
    \/ CrawlReturn
    \/ ReaderReload
    \/ \E r \in Reqs : Serve(r)

Spec == Init /\ [][Next]_vars

(***************************************************************************)
(* The startup alone: run_crawl to its end (main.rs:347), with more pages. *)
(***************************************************************************)
InitCrawl ==
    /\ endian \in {"little", "big"}
    /\ model \in ModelFiles
    /\ mainPc = "crawl"
    /\ tgt = 1
    /\ cpc = "call"
    /\ pagesLeft = 0
    /\ budget = MaxFetchTotal
    /\ total = 0
    /\ cur = NoCur
    /\ writers = 0
    /\ pending = <<>>
    /\ docs = <<>>
    /\ by = <<>>
    /\ counts = ZeroCounts
    /\ stats = None
    /\ visible = 0
    /\ reqBudget = 0
    /\ conc = 0
    /\ lock = Free
    /\ req = [r \in Reqs |-> IdleReq]
    /\ task = [r \in Reqs |-> NoTask]
    /\ call = NoCall

NextCrawl ==
    \/ CrawlCall
    \/ CrawlNextPage
    \/ CrawlExtract
    \/ CrawlEmbed
    \/ CrawlAdd
    \/ CrawlCommit
    \/ CrawlReturn

SpecCrawl == InitCrawl /\ [][NextCrawl]_vars

(***************************************************************************)
(* The startup over an index directory that an earlier run of the program  *)
(* left behind (index.rs:29-30): it holds the document of a page that this *)
(* run's crawl can meet again.                                             *)
(***************************************************************************)
GoodUrl(t) == CHOOSE u \in SiteUrls(t) : is_good_url(t, u)

Earlier == "earlier"       \* in `by`: the document was there at startup

InitRecrawl ==
    /\ endian \in {"little", "big"}
    /\ model \in ModelFiles
    /\ mainPc = "crawl"
    /\ tgt = 1
    /\ cpc = "call"
    /\ pagesLeft = 0
    /\ budget = BootFetchTotal
    /\ total = 0
    /\ cur = NoCur
    /\ writers = 0
    /\ pending = <<>>
    /\ docs = << [url |-> GoodUrl("python").str, title |-> "Intro",
                  body |-> "cats are great pets",
                  embedding |-> EncodeEmbedding(Encoder(model, "Intro"), endian)] >>
    /\ by = <<Earlier>>
    /\ counts = ZeroCounts
    /\ stats = None
    /\ visible = 1
    /\ reqBudget = 0
    /\ conc = 0
    /\ lock = Free
    /\ req = [r \in Reqs |-> IdleReq]
    /\ task = [r \in Reqs |-> NoTask]
    /\ call = NoCall

SpecRecrawl == InitRecrawl /\ [][NextCrawl]_vars

(***************************************************************************)
(* The server alone: runs that start when main has built the AppState      *)
(* (main.rs:349-359) after a crawl that accepted the pages of one of a few *)
(* sample runs, on a little-endian host.                                   *)
(***************************************************************************)
\* The document crawl() commits for an accepted page (crawler.rs:36-64).
DocOf(url, html, m, end) ==
    [url |-> url.str,
     title |-> TitleOf(url, html.title),
     body |-> html.body,
     embedding |-> EncodeEmbedding(Encoder(m, TitleOf(url, html.title)), end)]

Cats == [title |-> "Intro", body |-> "cats are great pets"]
Dogs == [title |-> "Intro", body |-> "dogs are loyal companions"]
Bare == [title |-> NoTitle, body |-> ""]

\* Accepted pages of a crawl, in commit order.
SampleRuns ==
    { <<>>,
      << <<"python", Cats>>, <<"python", Dogs>> >>,
      << <<"python", Cats>>, <<"ruby", Bare>>, <<"rust_std", Cats>>, <<"log", Bare>> >> }

CountsOf(run) ==
    [f \in DOMAIN ZeroCounts |->
        Cardinality({k \in 1..Len(run) : CountField(run[k][1]) = f})]

InitServe ==
    /\ endian = "little"
    /\ model \in ModelFiles
    /\ mainPc = "serving"
    /\ tgt = NumTargets
    /\ cpc = "done"
    /\ pagesLeft = 0
    /\ budget = 0
    /\ total = 0
    /\ cur = NoCur
    /\ writers = 0
    /\ pending = <<>>
    /\ \E run \in SampleRuns :
        /\ docs = [k \in 1..Len(run) |-> DocOf(GoodUrl(run[k][1]), run[k][2], model, endian)]
        /\ by = [k \in 1..Len(run) |-> run[k][1]]
        /\ counts = CountsOf(run)
        /\ stats = CountsOf(run)
        /\ visible \in {Len(run)} \cup {n \in {Len(run) - 1} : n >= 0}
        \* concurrent requests over the small indexes, one at a time otherwise
        /\ conc = IF Len(run) = 0 THEN NumReq ELSE 1
    /\ reqBudget = MaxRequests
    /\ lock = Free
    /\ req = [r \in Reqs |-> IdleReq]
    /\ task = [r \in Reqs |-> NoTask]
    /\ call = NoCall

NextServe ==
    \/ ReaderReload
    \/ \E r \in Reqs : Serve(r)

SpecServe == InitServe /\ [][NextServe]_vars

(***************************************************************************)
(* The server over an index directory that already held documents when     *)
(* SearchIndex::new opened it (index.rs:29-30), written by an earlier run  *)
(* or by another program: the embedding field of such a document can be    *)
(* well-formed, short or long by an element, longer by two stray bytes, or *)
(* absent.  This run's crawl found no page to index.                       *)
(***************************************************************************)
StoredEmbeddings(m, end) ==
    LET good == EncodeEmbedding(Encoder(m, "Intro"), end)
    IN  { good,
          SubSeq(good, 1, Len(good) - F32_SIZE),
          good \o NativeBytes(F_ONE, end),
          good \o <<0, 0>>,
          Missing }

StoredDocs(m, end) ==
    { [url |-> GoodUrl("python").str, title |-> "Intro",
       body |-> "cats are great pets", embedding |-> e] :
        e \in StoredEmbeddings(m, end) }

InitStored ==
    /\ endian \in {"little", "big"}
    /\ model \in ModelFiles
    /\ mainPc = "serving"
    /\ tgt = NumTargets
    /\ cpc = "done"
    /\ pagesLeft = 0
    /\ budget = 0
    /\ total = 0
    /\ cur = NoCur
    /\ writers = 0
    /\ pending = <<>>
    /\ docs \in {s \in SeqsUpTo(StoredDocs(model, endian), 2) : s # <<>>}
    /\ by = [k \in 1..Len(docs) |-> Earlier]
    /\ counts = ZeroCounts
    /\ stats = ZeroCounts
    /\ visible = Len(docs)
    /\ reqBudget = 1
    /\ conc = 1
    /\ lock = Free
    /\ req = [r \in Reqs |-> IdleReq]
    /\ task = [r \in Reqs |-> NoTask]
    /\ call = NoCall

NextRequests == \E r \in Reqs : Serve(r)

SpecStored == InitStored /\ [][NextRequests]_vars

(***************************************************************************)
(* The server under the scheduling of the tokio runtime: a handler or task *)
(* that can take its next step is polled again and takes it (main.rs:337,  *)
(* the multi-thread runtime of #[tokio::main]); tokio::sync::Mutex hands   *)
(* the lock to a waiter when it is released.  Requests arrive concurrently *)
(* over an empty index.                                                    *)
(***************************************************************************)
InitLive ==
    /\ endian = "little"
    /\ model \in ModelFiles
    /\ mainPc = "serving"
    /\ tgt = NumTargets
    /\ cpc = "done"
    /\ pagesLeft = 0
    /\ budget = 0
    /\ total = 0
    /\ cur = NoCur
    /\ writers = 0
    /\ pending = <<>>
    /\ docs = <<>>
    /\ by = <<>>
    /\ counts = ZeroCounts
    /\ stats = ZeroCounts
    /\ visible = 0
    /\ reqBudget = MaxRequests
    /\ conc = 2        \* two requests in flight contend for the mutex
    /\ lock = Free
    /\ req = [r \in Reqs |-> IdleReq]
    /\ task = [r \in Reqs |-> NoTask]
    /\ call = NoCall

Fairness ==
    \A r \in Reqs :
        /\ WF_vars(SearchParse(r)) /\ WF_vars(SearchLexical(r))
        /\ WF_vars(SearchFetch(r)) /\ WF_vars(SearchJoin(r))
        /\ WF_vars(SearchLock(r)) /\ WF_vars(SearchSort(r))
        /\ WF_vars(SearchRender(r))
        /\ WF_vars(TaskLock(r)) /\ WF_vars(TaskEmbed(r))

SpecLive == InitLive /\ [][NextRequests]_vars /\ Fairness

(***************************************************************************)
(* SentEmbed::sort_by_similarity called on its own (it is a pub fn of      *)
(* transformers.rs): any query and candidates, normalised or not.          *)
(***************************************************************************)
\* Candidates per call.
MaxCands == 3

Ones == [i \in 1..DIM |-> F_ONE]
Zeros == [i \in 1..DIM |-> F_ZERO]

SortVectors ==
    {Axis(1, F_ONE), Axis(1, F_NEG_ONE), Axis(DIM, F_ONE), Ones, Zeros, NaNVec}

InitSort ==
    /\ endian \in {"little", "big"}
    /\ model = "m1"
    /\ mainPc = "serving"
    /\ tgt = NumTargets
    /\ cpc = "done"
    /\ pagesLeft = 0
    /\ budget = 0
    /\ total = 0
    /\ cur = NoCur
    /\ writers = 0
    /\ pending = <<>>
    /\ docs = <<>>
    /\ by = <<>>
    /\ counts = ZeroCounts
    /\ stats = ZeroCounts
    /\ visible = 0
    /\ reqBudget = 0
    /\ conc = 0
    /\ lock = Free
    /\ req = [r \in Reqs |-> IdleReq]
    /\ task = [r \in Reqs |-> NoTask]
    /\ \E q \in SortVectors, cs \in SeqsUpTo(SortVectors, MaxCands) :
        call = [NoCall EXCEPT !.pc = "called", !.query = q, !.candidates = cs]

\* transformers.rs:104-134, run to its return.
SortCall ==
    /\ call.pc = "called"
    /\ \E negs \in [1..Len(call.candidates) -> BOOLEAN] :
        LET res == sort_by_similarity(call.query, call.candidates, negs)
        IN  call' = [call EXCEPT !.pc = "returned", !.ok = res.ok, !.scores = res.scores]
    /\ UNCHANGED <<endian, model, mainPc, crawlVars, stats, srvVars>>

NextSort == SortCall

SpecSort == InitSort /\ [][NextSort]_vars

(***************************************************************************)
(* Properties.                                                             *)
(***************************************************************************)
\* The URL string belongs to a URL of the target's site that the target's
\* include predicate accepts.
UrlIncluded(t, str) == \E u \in SiteUrls(t) : u.str = str /\ is_good_url(t, u)

\* Documents committed by the crawl() call in progress.
DocsOfRun == Cardinality({k \in 1..Len(by) : by[k] = Targets[tgt]})

InCrawl == cpc \in {"loop", "extract", "embed", "add", "commit", "return"}

\* C1: every document crawl() writes (added to the writer or committed) has
\* a URL that parsed and that the include predicate of its target accepted.
C1_OnlyIncludedUrls ==
    /\ \A k \in 1..Len(docs) : UrlIncluded(by[k], docs[k].url)
    /\ \A k \in 1..Len(pending) : UrlIncluded(Targets[tgt], pending[k].url)

\* C1 witness: the first crawl has gone through all MaxFetch pages of its
\* site, skipped some of them and committed one.
C1_Witness ==
    /\ tgt = 1 /\ cpc = "return" /\ pagesLeft = 0
    /\ budget = MaxFetchTotal - MaxFetch
    /\ total = 1 /\ Len(docs) = 1

\* C2: within a crawl() call `total` is between 0 and the cap, never
\* decreases, and grows by exactly one with each committed document; the
\* count a call returns is therefore at most the cap.
C2_CounterBounded ==
    /\ [](total \in 0..MAX_PAGES)
    /\ [][(InCrawl /\ InCrawl') =>
            /\ total' >= total
            /\ Len(docs') - Len(docs) \in {0, 1}
            /\ total' - total = Len(docs') - Len(docs)]_vars
    /\ [](cpc = "return" => total = DocsOfRun /\ total <= MAX_PAGES)

\* C2 witness: the loop is left at the cap while the site has pages left.
C2_Witness == cpc = "return" /\ total = MAX_PAGES /\ pagesLeft > 0

\* C3: at most one added document is uncommitted; it exists only between a
\* page's add and its commit, and whenever the loop turns to the next page
\* every page accepted before is committed and counted.
C3_OneDocumentPerCommit ==
    /\ Len(pending) <= 1
    /\ cpc = "commit" => Len(pending) = 1
    /\ cpc \in {"call", "loop", "extract", "embed", "add", "return"} => pending = <<>>
    /\ InCrawl => total = DocsOfRun
    /\ cpc \in {"call", "loop", "return", "done"} => cur = NoCur

\* C3 witness: the second page of a crawl is about to be committed while the
\* first is already in the index.
C3_Witness == cpc = "commit" /\ total = 1 /\ DocsOfRun = 1 /\ Len(pending) = 1

\* C4: every embedding crawl() stores takes F32_SIZE * DIM bytes, and what
\* the search handler decodes from the stored bytes is, element for element
\* and bit for bit, the embedding that was generated for the document.
C4_EmbeddingRoundTrip ==
    /\ \A k \in 1..Len(docs) : Len(docs[k].embedding) = F32_SIZE * DIM
    /\ \A k \in 1..Len(pending) : Len(pending[k].embedding) = F32_SIZE * DIM
    /\ \A r \in Reqs : \A k \in 1..Len(req[r].docs_with_embeddings) :
        LET c == req[r].docs_with_embeddings[k]
        IN  /\ Len(c.embedding) = DIM
            /\ c.embedding = Encoder(model, docs[c.doc].title)

\* C4 witness: after a crawl, a handler has decoded the embedding of a
\* candidate on a little-endian host.
C4_Witness ==
    /\ endian = "little" /\ cpc = "done"
    /\ \E r \in Reqs : Len(req[r].docs_with_embeddings) >= 1

\* C5: a result list has exactly min(TOP_N, number of candidates) entries,
\* the candidates are at most TOP_K different documents, and every entry is
\* built from a candidate of the request, no candidate twice.
C5_ResultList ==
    \A r \in Reqs :
        req[r].response.context = "SearchRes" =>
            LET raw == req[r].results_raw
                res == req[r].response.results
            IN  /\ Len(raw) <= TOP_K
                /\ \A j, k \in 1..Len(raw) : j # k => raw[j] # raw[k]
                /\ Len(res) = Min(TOP_N, Len(raw))
                /\ \A k \in 1..Len(res) :
                    /\ res[k].cand \in 0..(Len(raw) - 1)
                    /\ res[k].url = docs[raw[res[k].cand + 1]].url
                    /\ res[k].title = docs[raw[res[k].cand + 1]].title
                /\ \A j, k \in 1..Len(res) : j # k => res[j].cand # res[k].cand

\* C5 witness: a response for a request with more than TOP_N candidates.
C5_Witness ==
    \E r \in Reqs :
        /\ req[r].response.context = "SearchRes"
        /\ Len(req[r].results_raw) > TOP_N
        /\ Len(req[r].response.results) = TOP_N

\* C6: sort_by_similarity returns every candidate once with its cosine
\* similarity, no later entry has a greater similarity than an earlier one,
\* and entries with equal similarity keep the order of the input.
C6_SortedStable ==
    (call.pc = "returned" /\ call.ok) =>
        LET out == call.scores
            n == Len(call.candidates)
        IN  /\ Len(out) = n
            /\ \A k \in 1..n :
                /\ out[k].i \in 0..(n - 1)
                /\ LET sim == CosSim(call.query, call.candidates[out[k].i + 1], FALSE)
                   IN  IF sim.nan THEN out[k].sim.nan ELSE out[k].sim = sim
            /\ \A j, k \in 1..n : j < k =>
                /\ out[j].i # out[k].i
                /\ ~F32Lt(out[j].sim, out[k].sim)
                /\ F32Eq(out[j].sim, out[k].sim) => out[j].i < out[k].i

\* C6 witness: three candidates; the last of the input comes out first and the
\* other two tie.
C6_Witness ==
    /\ call.pc = "returned" /\ call.ok /\ Len(call.scores) = 3
    /\ call.scores[1].i = 2
    /\ F32Lt(call.scores[2].sim, call.scores[1].sim)
    /\ F32Eq(call.scores[2].sim, call.scores[3].sim)

\* C7: sort_by_similarity does not fail on NaN similarities and puts every
\* candidate with a NaN similarity behind all candidates with a number.
C7_NaNLast ==
    call.pc = "returned" =>
        /\ call.ok
        /\ \A j, k \in 1..Len(call.scores) :
            j < k => ~(call.scores[j].sim.nan /\ ~call.scores[k].sim.nan)

\* C8: a search request without a query parameter gets the search box page
\* and does nothing else: no searcher, no query parsed or run, no embedding
\* task, no use of the mutex.
C8_NoQueryNoWork ==
    \A r \in Reqs :
        (req[r].pc # "idle" /\ req[r].route = "/" /\ req[r].query = None) =>
            /\ req[r].pc = "done"
            /\ req[r].response = SearchBoxView
            /\ req[r].did = {}
            /\ task[r] = NoTask
            /\ lock \notin {TaskOf(r), HandlerOf(r)}

\* C8 witness: such a request answered by a server whose index has documents.
C8_Witness ==
    \E r \in Reqs :
        /\ req[r].pc = "done" /\ req[r].route = "/"
        /\ req[r].query = None /\ visible > 0

\* C9: a request whose query is the empty string, once answered, has an
\* empty result list and has run no index query.
C9_EmptyQueryNoIndexQuery ==
    \A r \in Reqs :
        (req[r].query = "" /\ req[r].pc = "done") =>
            /\ req[r].response.results = <<>>
            /\ "search" \notin req[r].did

\* C10: the handler takes the mutex for the rerank, reranks and responds only
\* after its lexical search and fetch are done, its embedding task has ended,
\* and it has passed the join.
C10_JoinBeforeRerank ==
    \A r \in Reqs :
        (\/ req[r].pc \in {"lock", "sort", "render"}
         \/ "sort_by_similarity" \in req[r].did
         \/ req[r].response.context = "SearchRes") =>
            /\ task[r].pc = "done"
            /\ {"search", "doc", "join", "generate_embedding"} \subseteq req[r].did

\* C10 witness: a handler that waited at the join has reranked its candidates.
C10_Witness ==
    \E r \in Reqs : req[r].pc = "render" /\ Len(req[r].scores) >= 2

\* C11: a request whose lexical branch (parse, search, fetch) or embedding
\* branch failed gets no response at all; a result list is only ever emitted
\* by a request whose query parsed, whose search and fetch succeeded, whose
\* task brought an embedding, and that reranked.
C11_FailureFailsRequest ==
    \A r \in Reqs :
        /\ req[r].pc = "panicked" => req[r].response = NoResponse
        /\ task[r].result \in {None, "panicked"} =>
                req[r].response.context # "SearchRes"
        /\ req[r].response.context = "SearchRes" =>
                /\ req[r].pc = "done"
                /\ parse_query(req[r].query).ok
                /\ task[r].result = "Some"
                /\ {"search", "doc", "join", "sort_by_similarity"} \subseteq req[r].did

\* C11 witness: the lexical branch found candidates in a non-empty index, the
\* embedding task returned an error, and the request has failed.
C11_Witness ==
    \E r \in Reqs :
        /\ req[r].pc = "panicked" /\ req[r].snapshot > 0
        /\ task[r].pc = "done" /\ task[r].result = None
        /\ {"doc", "join"} \subseteq req[r].did

\* Who is inside a call of the embedding service: the crawl (crawler.rs:50),
\* a request's task (main.rs:103), a request's handler (main.rs:157).
Crawler == <<"crawl">>
ServiceUsers ==
    (IF mainPc = "crawl" /\ cpc = "embed" THEN {Crawler} ELSE {})
    \cup {TaskOf(r) : r \in {x \in Reqs : task[x].pc = "embed"}}
    \cup {HandlerOf(r) : r \in {x \in Reqs : req[x].pc = "sort"}}

\* C12: at most one user is inside the embedding service at a time; a task
\* or handler that is inside it owns the mutex; and until the server is up
\* no request or task exists and the mutex is untouched, so the crawl is the
\* only user during startup.
C12_ServiceExclusive ==
    /\ Cardinality(ServiceUsers) <= 1
    /\ \A u \in ServiceUsers : u # Crawler => lock = u
    /\ mainPc # "serving" =>
            /\ lock = Free
            /\ \A r \in Reqs : req[r] = IdleReq /\ task[r] = NoTask

\* C12 witness: two requests in flight; the task of one is generating its
\* embedding under the mutex while the task of the other waits for it.
C12_Witness ==
    \E r1, r2 \in Reqs :
        /\ task[r1].pc = "embed" /\ lock = TaskOf(r1)
        /\ task[r2].pc = "lock"

\* The page a written document was built from had no extracted content: no
\* text in its p/h1..h4 elements and no <title> element (its title is the
\* URL string crawler.rs:48 falls back to).
FromEmptyPage(doc) == doc.body = "" /\ doc.title = doc.url

\* C13: no document is written for a page whose URL did not parse or whose
\* extracted content is empty.
C13_SkipsMalformedAndEmpty ==
    /\ \A k \in 1..Len(docs) : docs[k].url # NoUrl.str /\ ~FromEmptyPage(docs[k])
    /\ \A k \in 1..Len(pending) :
            pending[k].url # NoUrl.str /\ ~FromEmptyPage(pending[k])

\* C14: when generate_embedding, add_document or commit fails, crawl()
\* returns the error in that step: nothing is committed by it, main has
\* ended, and from then on nothing happens any more -- no page, no target,
\* no request, no stats.
C14_FailureIsFatal ==
    /\ [](cpc = "err" =>
            /\ mainPc = "aborted" /\ stats = None
            /\ pending = <<>> /\ writers = 0
            /\ \A r \in Reqs : req[r] = IdleReq /\ task[r] = NoTask)
    /\ [][(cpc \in {"embed", "add", "commit"} /\ cpc' = "err") =>
                (docs' = docs /\ tgt' = tgt /\ mainPc' = "aborted")]_vars
    /\ [][cpc = "err" => UNCHANGED vars]_vars

\* C14 witness: a failure on a page while the site has pages left, targets
\* remain and a request is yet to come.
C14_Witness ==
    /\ cpc = "err" /\ cur = NoCur
    /\ pagesLeft > 0 /\ tgt < NumTargets /\ reqBudget > 0

\* Position of a target in the order run_crawl calls crawl().
TargetIndex(t) == CHOOSE i \in 1..NumTargets : Targets[i] = t

\* C15: the targets are crawled in the order of Targets, the next one
\* starting only when the crawl() call of the one before has returned; the
\* documents of an earlier target are all committed before those of a later
\* one; and a request is in service only when the crawl of the last target has
\* returned without error.
C15_TargetsInOrderThenServe ==
    /\ [](tgt \in 1..NumTargets)
    /\ [][\/ tgt' = tgt
          \/ tgt' = tgt + 1 /\ cpc = "return" /\ cpc' = "call"]_vars
    /\ [](\A j, k \in 1..Len(by) :
            j < k => TargetIndex(by[j]) <= TargetIndex(by[k]))
    /\ [](\A k \in 1..Len(by) : mainPc = "crawl" => TargetIndex(by[k]) <= tgt)
    /\ []((mainPc = "serving" \/ \E r \in Reqs : req[r] # IdleReq \/ task[r] # NoTask) =>
            /\ mainPc = "serving" /\ tgt = NumTargets /\ cpc = "done"
            /\ writers = 0 /\ pending = <<>>)

\* C15 witness: two targets have committed a document each and afterwards a
\* request has been answered.
C15_Witness ==
    /\ Len(by) = 2 /\ by[1] # by[2]
    /\ \E r \in Reqs : req[r].pc = "done"

\* Documents committed by the crawls that feed a field of CrawlStats.
CommittedFor(f) == Cardinality({k \in 1..Len(by) : CountField(by[k]) = f})

\* C16: there are no stats until the crawl of the last target returns; the
\* stats written then give, per field, the number of documents committed by
\* the crawls of that field's targets (docs_rs_ct: by all crate crawls
\* together); no later step changes them, and a stats page shows them.
C16_StatsOnceAndExact ==
    /\ [](mainPc # "serving" => stats = None)
    /\ [][(mainPc # "serving" /\ mainPc' = "serving") =>
                (cpc = "return" /\ tgt = NumTargets)]_vars
    /\ [](mainPc = "serving" =>
            \A f \in DOMAIN ZeroCounts : stats[f] = CommittedFor(f))
    /\ [][mainPc = "serving" => stats' = stats]_vars
    /\ [](\A r \in Reqs :
            (req[r].route = "/stats" /\ req[r].pc = "done") =>
                req[r].response = StatsView(stats))

\* C16 witness: two crate crawls committed a document each and a stats page
\* has been rendered.
C16_Witness ==
    /\ mainPc = "serving"
    /\ Len(by) = 2 /\ by[1] # by[2]
    /\ CountField(by[1]) = "docs_rs_ct" /\ CountField(by[2]) = "docs_rs_ct"
    /\ \E r \in Reqs : req[r].route = "/stats" /\ req[r].pc = "done"

\* The stored embedding bytes of the k-th lexical candidate of a request.
StoredBytes(rq, k) == docs[rq.results_raw[k]].embedding

\* C17: a request gets a result list only if every one of its candidates
\* has a stored embedding that is present and is F32_SIZE * DIM bytes long.
C17_MalformedEmbeddingFails ==
    \A r \in Reqs :
        req[r].response.context = "SearchRes" =>
            \A k \in 1..Len(req[r].results_raw) :
                /\ StoredBytes(req[r], k) # Missing
                /\ Len(StoredBytes(req[r], k)) = F32_SIZE * DIM

\* What does hold of the handler: a request gets a result list only if every
\* candidate's stored embedding is present and decodes to DIM elements.
WrongElementCountFails ==
    \A r \in Reqs :
        req[r].response.context = "SearchRes" =>
            \A k \in 1..Len(req[r].results_raw) :
                /\ StoredBytes(req[r], k) # Missing
                /\ Len(DecodeEmbedding(StoredBytes(req[r], k), endian)) = DIM

\* C18: there is never more than one IndexWriter; there is one exactly while
\* a crawl() call is between opening it and returning; and once the server
\* is up there is none, and no step -- in particular no step of a search or
\* stats request -- changes the committed or the uncommitted documents.
C18_WriterOnlyInCrawl ==
    /\ [](writers \in {0, 1})
    /\ [](writers = 1 <=> (mainPc = "crawl" /\ InCrawl))
    /\ [](mainPc = "serving" => writers = 0 /\ pending = <<>>)
    /\ [][mainPc = "serving" =>
            (docs' = docs /\ pending' = pending /\ writers' = writers)]_vars
    /\ [][(req' # req \/ task' # task) =>
            (docs' = docs /\ pending' = pending /\ writers' = writers)]_vars

\* C18 witness: the server is up over an index of two documents written by
\* two crawl() calls, and has answered a request with results.
C18_Witness ==
    /\ mainPc = "serving" /\ writers = 0
    /\ Len(docs) = 2 /\ by[1] # by[2]
    /\ \E r \in Reqs : req[r].response.context = "SearchRes"

\* C19: a step changes the committed documents only by appending one
\* document to them: the one commit of crawl() appends exactly the document
\* built from the accepted page, whether or not its URL is already indexed,
\* and no step changes or removes a document that is there.
C19_AppendOnly ==
    [][/\ Len(docs') \in {Len(docs), Len(docs) + 1}
       /\ SubSeq(docs', 1, Len(docs)) = docs
       /\ Len(docs') = Len(docs) + 1 =>
            /\ cpc = "commit" /\ pending # <<>>
            /\ docs'[Len(docs')] = pending[1]
            /\ docs'[Len(docs')].url = cur.url.str
       /\ (cpc = "commit" /\ cpc' = "loop") => Len(docs') = Len(docs) + 1]_vars

\* C19 witness: the index holds the document an earlier run wrote for a URL
\* and the two documents this run wrote for the same URL.
C19_Witness ==
    /\ Len(docs) = 3 /\ by[1] = Earlier
    /\ docs[1].url = docs[2].url /\ docs[2].url = docs[3].url

\* C20: the mutex is owned only by a task inside generate_embedding or a
\* handler inside sort_by_similarity -- never by a handler waiting at the
\* join, never by a failed request or an ended task; whoever owns it gives it
\* up, and every task and handler that waits for it gets it.
C20_LockNeverStuck ==
    /\ [](\A r \in Reqs :
            /\ lock = HandlerOf(r) => req[r].pc = "sort"
            /\ lock = TaskOf(r) => task[r].pc = "embed")
    /\ (lock # Free) ~> (lock = Free)
    /\ \A r \in Reqs :
            /\ (task[r].pc = "lock") ~> (task[r].pc = "embed")
            /\ (req[r].pc = "lock") ~> (req[r].pc = "sort")

\* C20 witness: a handler has failed before the join (its query does not
\* parse) while its task holds the mutex and the task of another request
\* waits for it.
C20_Witness ==
    \E r1, r2 \in Reqs :
        /\ req[r1].pc = "panicked" /\ "join" \notin req[r1].did
        /\ task[r1].pc = "embed" /\ lock = TaskOf(r1)
        /\ task[r2].pc = "lock"

\* C21: the embedding of every document crawl() adds or commits is the
\* encoding of the embedding of its title, the title being the <title> text
\* of its page or, when the page has none, its URL string; so two documents
\* with the same title carry the same embedding bytes whatever their bodies.
C21_EmbeddingFromTitleAlone ==
    LET stored == docs \o pending
    IN  /\ \A k \in 1..Len(stored) :
            /\ stored[k].embedding =
                    EncodeEmbedding(Encoder(model, stored[k].title), endian)
            /\ \E html \in Htmls :
                    /\ stored[k].body = html.body
                    /\ stored[k].title = IF html.title = NoTitle
                                         THEN stored[k].url ELSE html.title
        /\ \A j, k \in 1..Len(stored) :
            stored[j].title = stored[k].title
                => stored[j].embedding = stored[k].embedding

\* C21 witness: this run has committed two documents with the same title
\* and different bodies.
C21_Witness ==
    \E j, k \in 1..Len(docs) :
        /\ by[j] # Earlier /\ by[k] # Earlier
        /\ docs[j].title = docs[k].title
        /\ docs[j].body # docs[k].body
        /\ docs[j].embedding # <<>>

====
